---- MODULE Spec2Model ----
(***************************************************************************)
(* Model of lib/threadUtils.ts (splitIntoThreads, splitLongSentence).      *)
(* A string is a sequence of one-character strings; lengths are UTF-16     *)
(* code-unit counts, as String.prototype.length.                           *)
(***************************************************************************)
EXTENDS Integers, Sequences, FiniteSets, TLC

(***************************************************************************)
(* Program constant.                                                       *)
(***************************************************************************)
MAX_TWEET_LENGTH == 280

(***************************************************************************)
(* Bound of the model: an input is the concatenation of at most MaxPieces  *)
(* pieces drawn from Pieces.                                               *)
(***************************************************************************)
MaxPieces == 3

(***************************************************************************)
(* Characters and strings.                                                 *)
(***************************************************************************)
\* the characters matched by \s and removed by trim() that the inputs use
Whitespace == {" ", "\n", "\r", "\t"}

IsWS(c) == c \in Whitespace

Ellipsis == <<".", ".", ".">>

\* c repeated n times
Rep(c, n) == [i \in 1..n |-> c]

Max(S) == CHOOSE x \in S : \A y \in S : y <= x

Min(S) == CHOOSE x \in S : \A y \in S : x <= y

\* s.substring(from) with a 0-based index
SubstringFrom(s, from) == SubSeq(s, from + 1, Len(s))

\* s.substring(0, to) with a 0-based exclusive end, clamped as substring does
SubstringTo(s, to) == SubSeq(s, 1, IF to > Len(s) THEN Len(s) ELSE to)

\* first 1-based index >= i of a non-whitespace character, Len(s)+1 if none
RECURSIVE FirstNonWS(_, _)
FirstNonWS(s, i) ==
    IF i > Len(s) THEN i
    ELSE IF IsWS(s[i]) THEN FirstNonWS(s, i + 1) ELSE i

\* last 1-based index <= i of a non-whitespace character, 0 if none
RECURSIVE LastNonWS(_, _)
LastNonWS(s, i) ==
    IF i = 0 THEN 0
    ELSE IF IsWS(s[i]) THEN LastNonWS(s, i - 1) ELSE i

\* String.prototype.trim
Trim(s) == SubSeq(s, FirstNonWS(s, 1), LastNonWS(s, Len(s)))

IsPrefixAt(p, s, i) ==
    /\ i + Len(p) - 1 <= Len(s)
    /\ \A j \in 1..Len(p) : s[i + j - 1] = p[j]

IsPrefix(p, s) == IsPrefixAt(p, s, 1)

IsSuffix(p, s) == Len(p) <= Len(s) /\ IsPrefixAt(p, s, Len(s) - Len(p) + 1)

\* content.replace(/\r\n/g, '\n')
\* the 1-based indexes at which /\r\n/ matches
CRLFs(s) == {i \in 1..(Len(s) - 1) : s[i] = "\r" /\ s[i + 1] = "\n"}

RECURSIVE ReplaceCRLF(_)
ReplaceCRLF(s) ==
    IF CRLFs(s) = {} THEN s
    ELSE LET i == Min(CRLFs(s))
         IN  SubSeq(s, 1, i - 1) \o <<"\n">> \o ReplaceCRLF(SubSeq(s, i + 2, Len(s)))

\* content.trim().replace(/\r\n/g, '\n')
Normalize(s) == ReplaceCRLF(Trim(s))


\* `${n}` for a non-negative integer
DigitChars == <<"0", "1", "2", "3", "4", "5", "6", "7", "8", "9">>

RECURSIVE NumberString(_)
NumberString(n) ==
    IF n < 10 THEN <<DigitChars[n + 1]>>
    ELSE NumberString(n \div 10) \o <<DigitChars[(n % 10) + 1]>>

\* the i flag of a regular expression, on the letters
UpperCase == <<"A", "B", "C", "D", "E", "F", "G", "H", "I", "J", "K", "L", "M",
               "N", "O", "P", "Q", "R", "S", "T", "U", "V", "W", "X", "Y", "Z">>

LowerCase == <<"a", "b", "c", "d", "e", "f", "g", "h", "i", "j", "k", "l", "m",
               "n", "o", "p", "q", "r", "s", "t", "u", "v", "w", "x", "y", "z">>

Lower(c) ==
    IF \E k \in 1..26 : UpperCase[k] = c
    THEN LowerCase[CHOOSE k \in 1..26 : UpperCase[k] = c]
    ELSE c

\* 1-based index of the last character of the whitespace run that starts at i
RunEnd(s, i) == FirstNonWS(s, i) - 1

(***************************************************************************)
(* trimmedContent.split(/\n\s*\n/)                                         *)
(***************************************************************************)
\* 1-based index of the last "\n" in i..e, 0 if none
RECURSIVE LastLF(_, _, _)
LastLF(s, i, e) ==
    IF e < i THEN 0
    ELSE IF s[e] = "\n" THEN e ELSE LastLF(s, i, e - 1)

\* end of the match of /\n\s*\n/ that starts at i, 0 if there is none:
\* \s* is greedy, so the match runs to the last "\n" of the whitespace run
ParagraphBreakEnd(s, i) ==
    IF s[i] # "\n" THEN 0
    ELSE LastLF(s, i + 1, RunEnd(s, i))

\* the 1-based indexes at which /\n\s*\n/ can match
ParagraphBreaks(s) == {i \in 1..Len(s) : ParagraphBreakEnd(s, i) # 0}

\* split cuts at the leftmost match, then goes on after it
RECURSIVE SplitParagraphs(_)
SplitParagraphs(s) ==
    IF ParagraphBreaks(s) = {} THEN <<s>>
    ELSE LET i == Min(ParagraphBreaks(s))
         IN  <<SubSeq(s, 1, i - 1)>>
               \o SplitParagraphs(SubSeq(s, ParagraphBreakEnd(s, i) + 1, Len(s)))

(***************************************************************************)
(* paragraph.split(/(?<=[.!?])\s+/)                                        *)
(***************************************************************************)
SentenceTerminals == {".", "!", "?"}

\* mutant: the whitespace after the punctuation is not asked for
SentenceBreakAfterAnyTerminal(s, i) == i > 1 /\ s[i - 1] \in SentenceTerminals

SentenceBreakAt(s, i) == i > 1 /\ IsWS(s[i]) /\ s[i - 1] \in SentenceTerminals

SentenceBreaks(s) == {i \in 1..Len(s) : SentenceBreakAt(s, i)}

RECURSIVE SplitSentences(_)
SplitSentences(s) ==
    IF SentenceBreaks(s) = {} THEN <<s>>
    ELSE LET i == Min(SentenceBreaks(s))
         IN  <<SubSeq(s, 1, i - 1)>>
               \o SplitSentences(SubSeq(s, RunEnd(s, i) + 1, Len(s)))

(***************************************************************************)
(* The breakpoints of splitLongSentence, in order of preference.           *)
(***************************************************************************)
Conjunctions ==
    << <<"a", "n", "d">>, <<"o", "r">>, <<"b", "u", "t">>, <<"s", "o">>,
       <<"b", "e", "c", "a", "u", "s", "e">>, <<"t", "h", "a", "t">>,
       <<"w", "h", "i", "c", "h">>, <<"w", "h", "e", "n">>,
       <<"w", "h", "e", "r", "e">>, <<"w", "h", "o">>, <<"i", "f">> >>

NumBreakpoints == 4

\* (?=and|or|...) with the i flag, at 1-based position i
ConjunctionAhead(s, i) ==
    \E c \in 1..Len(Conjunctions) :
        /\ i + Len(Conjunctions[c]) - 1 <= Len(s)
        /\ \A j \in 1..Len(Conjunctions[c]) :
               Lower(s[i + j - 1]) = Conjunctions[c][j]

\* does breakpoint b match with match.index = k (0-based)? A match of \s+
\* starts at the first character of a whitespace run.
BreakpointAt(s, b, k) ==
    /\ k < Len(s)
    /\ IsWS(s[k + 1])
    /\ CASE b = 1 -> k >= 1 /\ s[k] \in {":", ";"}
         [] b = 2 -> k >= 1 /\ s[k] = ","
         [] b = 3 -> /\ (k = 0 \/ ~IsWS(s[k]))
                     /\ ConjunctionAhead(s, RunEnd(s, k + 1) + 1)
         [] OTHER -> k = 0 \/ ~IsWS(s[k])

\* the match.index values of [...s.matchAll(new RegExp(breakpoint, 'g'))]
Matches(s, b) == {k \in 0..(Len(s) - 1) : BreakpointAt(s, b, k)}

\* the matches the inner loop accepts: index not 0 and <= MAX - 3
Usable(s, b) ==
    {k \in Matches(s, b) : k # 0 /\ k <= MAX_TWEET_LENGTH - 3}

\* breakpoints that offer a usable match
UsableBreakpoints(s) == {b \in 1..NumBreakpoints : Usable(s, b) # {}}

\* mutant: the last usable match of any breakpoint
SplitIndexAnyBreakpoint(s) ==
    Max(UNION {Usable(s, b) : b \in UsableBreakpoints(s)})

\* match.index of the split taken in one iteration of the while loop
SplitIndex(s) == Max(Usable(s, Min(UsableBreakpoints(s))))

(***************************************************************************)
(* Inputs: every concatenation of at most MaxPieces pieces.                *)
(***************************************************************************)
\* the length of a word that is too long for one segment
LongWord == 400

\* a word, a run that leaves room for an ellipsis only, a run of exactly the
\* maximum, a word that is too long, white space, a blank line (also before an indented paragraph),
\* the end of a sentence (also before the next one) and the ends of the
\* clauses the breakpoints look for, a line end to normalize
Pieces ==
    { <<"a">>,
      Rep("b", MAX_TWEET_LENGTH - 3),
      Rep("d", MAX_TWEET_LENGTH),
      Rep("e", LongWord),
      <<" ">>,
      Rep(" ", 4),
      <<"\n", "\n">>,
      <<"\n", "\n", " ">>,
      <<".", " ">>,
      <<".", " ", "a">>,
      <<",", " ">>,
      <<";", " ">>,
      <<" ", "o", "r">>,
      <<"\r", "\n">> }

RECURSIVE InputsOf(_)
InputsOf(n) ==
    IF n = 0 THEN {<<>>}
    ELSE LET shorter == InputsOf(n - 1)
         IN  shorter \cup {s \o p : s \in shorter, p \in Pieces}

Inputs == InputsOf(MaxPieces)

(***************************************************************************)
(* State: the locals of one call of splitIntoThreads and of the call of    *)
(* splitLongSentence it makes.                                             *)
(***************************************************************************)
VARIABLES
    content,            \* the argument
    pc,                 \* position in the code
    paragraphs,         \* trimmedContent.split(/\n\s*\n/)
    pIdx,               \* position of the for loop over paragraphs
    sentences,          \* paragraph.split(/(?<=[.!?])\s+/)
    sIdx,               \* position of the for loop over sentences
    currentThread,
    threads,
    remainingSentence,  \* splitLongSentence
    chunks,             \* splitLongSentence
    result,             \* the value returned
    marks,              \* history: for each element of threads, whether a
                        \* leading / trailing ellipsis was injected into it
    calls,              \* history: the calls of the exported functions that
                        \* have returned, with argument and returned value
    pageThreads,        \* thread-builder.tsx: the state threads of the page
    isGenerating,       \* thread-builder.tsx
    isPosting,          \* thread-builder.tsx
    toast,              \* the title of the last toast shown
    ppc,                \* position of handlePostThread
    request,            \* the request of handlePostThread in flight
    response,           \* the response fetch resolved with
    activeUploadIndex,  \* ThreadPreview.tsx
    uploadType,         \* ThreadPreview.tsx
    ops,                \* number of handlers of the page invoked so far
    event,              \* history: the handler the last step of the page
                        \* belongs to
    req,                \* post-thread.ts: the request of the handler
    hpc,                \* position of the handler
    res                 \* the responses the handler has sent

\* the page and its components
ui == <<pageThreads, isGenerating, isPosting, toast, ppc, request, response,
        activeUploadIndex, uploadType, ops, event>>

\* the API route
api == <<req, hpc, res>>

vars == <<content, pc, paragraphs, pIdx, sentences, sIdx, currentThread,
          threads, remainingSentence, chunks, result, marks, calls, ui, api>>

NoMarks == [lead |-> FALSE, trail |-> FALSE]

\* thread-builder.tsx lines 11-17, ThreadInput.tsx line 21, ThreadPreview.tsx
\* lines 147-148: the state of the page when it is mounted; null is the
\* empty sequence where the value is an index, a request or a response
PageInit ==
    /\ pageThreads = <<>>
    /\ isGenerating = FALSE
    /\ isPosting = FALSE
    /\ toast = ""
    /\ ppc = "idle"
    /\ request = <<>>
    /\ response = <<>>
    /\ activeUploadIndex = <<>>
    /\ uploadType = "null"
    /\ ops = 0
    /\ event = ""

\* no request has reached the API route
HandlerIdle ==
    /\ req = <<>>
    /\ hpc = "idle"
    /\ res = <<>>

Init ==
    /\ content \in Inputs
    /\ pc = "start"
    /\ paragraphs = <<>>
    /\ pIdx = 1
    /\ sentences = <<>>
    /\ sIdx = 1
    /\ currentThread = <<>>
    /\ threads = <<>>
    /\ remainingSentence = <<>>
    /\ chunks = <<>>
    /\ result = <<>>
    /\ marks = <<>>
    /\ calls = <<>>
    /\ PageInit
    /\ HandlerIdle

\* mutant: currentThread is not a local, it keeps what the last call left
StartKeepsThread ==
    /\ pc = "start"
    /\ paragraphs' = SplitParagraphs(Normalize(content))
    /\ pIdx' = 1
    /\ threads' = <<>>
    /\ marks' = <<>>
    /\ pc' = "paragraph"
    /\ UNCHANGED <<ui, api, content, calls, sentences, sIdx, remainingSentence, chunks,
                   result, currentThread>>

\* lines 17-23
Start ==
    /\ pc = "start"
    /\ paragraphs' = SplitParagraphs(Normalize(content))
    /\ pIdx' = 1
    /\ threads' = <<>>
    /\ currentThread' = <<>>
    /\ marks' = <<>>
    /\ pc' = "paragraph"
    /\ UNCHANGED <<ui, api, content, calls, sentences, sIdx, remainingSentence, chunks, result>>

\* lines 26-30: the next paragraph is split into sentences
NextParagraph ==
    /\ pc = "paragraph"
    /\ pIdx <= Len(paragraphs)
    /\ sentences' = SplitSentences(paragraphs[pIdx])
    /\ sIdx' = 1
    /\ pc' = "sentence"
    /\ UNCHANGED <<ui, api, content, calls, paragraphs, pIdx, currentThread, threads,
                   remainingSentence, chunks, result, marks>>

\* threads.push(currentThread.trim())
Flush(ts, cur) == Append(ts, Trim(cur))

\* mutant: the current thread is pushed and not reset
LongSentenceKeepsThread ==
    /\ pc = "sentence"
    /\ sIdx <= Len(sentences)
    /\ Len(sentences[sIdx]) > MAX_TWEET_LENGTH
    /\ IF currentThread # <<>>
       THEN /\ threads' = Flush(threads, currentThread)
            /\ marks' = Append(marks, NoMarks)
       ELSE UNCHANGED <<threads, marks>>
    /\ remainingSentence' = sentences[sIdx]
    /\ chunks' = <<>>
    /\ pc' = "while"
    /\ UNCHANGED <<ui, api, content, calls, paragraphs, pIdx, sentences, sIdx, result,
                   currentThread>>

\* lines 34-41: a sentence that is too long on its own; splitLongSentence
\* is entered (lines 97-108)
LongSentence ==
    /\ pc = "sentence"
    /\ sIdx <= Len(sentences)
    /\ Len(sentences[sIdx]) > MAX_TWEET_LENGTH
    /\ IF currentThread # <<>>
       THEN /\ threads' = Flush(threads, currentThread)
            /\ marks' = Append(marks, NoMarks)
            /\ currentThread' = <<>>
       ELSE UNCHANGED <<threads, marks, currentThread>>
    /\ remainingSentence' = sentences[sIdx]
    /\ chunks' = <<>>
    /\ pc' = "while"
    /\ UNCHANGED <<ui, api, content, calls, paragraphs, pIdx, sentences, sIdx, result>>

\* mutant: the joining space is not counted
FitsNoSpace(cur, sentence) == Len(cur) + Len(sentence) <= MAX_TWEET_LENGTH

\* the test of line 47
Fits(cur, sentence) == Len(cur \o <<" ">> \o sentence) <= MAX_TWEET_LENGTH

\* lines 49-51: the current thread with the sentence added
Extended(cur, sentence) ==
    IF cur # <<>> THEN cur \o <<" ">> \o sentence ELSE sentence

\* lines 47-56
PackSentence ==
    /\ pc = "sentence"
    /\ sIdx <= Len(sentences)
    /\ Len(sentences[sIdx]) <= MAX_TWEET_LENGTH
    /\ IF Fits(currentThread, sentences[sIdx])
       THEN /\ currentThread' = Extended(currentThread, sentences[sIdx])
            /\ UNCHANGED <<threads, marks>>
       ELSE /\ threads' = Flush(threads, currentThread)
            /\ marks' = Append(marks, NoMarks)
            /\ currentThread' = sentences[sIdx]
    /\ sIdx' = sIdx + 1
    /\ UNCHANGED <<ui, api, content, calls, pc, paragraphs, pIdx, sentences,
                   remainingSentence, chunks, result>>

\* mutant: the two characters of the break are not counted
RoomForBreakNoMarker(cur) == Len(cur) <= MAX_TWEET_LENGTH

\* the test of line 60
RoomForBreak(cur) == Len(cur) + 2 <= MAX_TWEET_LENGTH

\* lines 59-65: the end of a paragraph
EndParagraph ==
    /\ pc = "sentence"
    /\ sIdx > Len(sentences)
    /\ IF RoomForBreak(currentThread)
       THEN /\ currentThread' = currentThread \o <<"\n", "\n">>
            /\ UNCHANGED <<threads, marks>>
       ELSE /\ threads' = Flush(threads, currentThread)
            /\ marks' = Append(marks, NoMarks)
            /\ currentThread' = <<>>
    /\ pIdx' = pIdx + 1
    /\ pc' = "paragraph"
    /\ UNCHANGED <<ui, api, content, calls, paragraphs, sentences, sIdx,
                   remainingSentence, chunks, result>>

\* mutant: the test does not trim
LastThreadNotEmptyUntrimmed(cur) == cur # <<>>

\* the test of line 69
LastThreadNotEmpty(cur) == Trim(cur) # <<>>

\* lines 68-71: after the last paragraph
FinalFlush ==
    /\ pc = "paragraph"
    /\ pIdx > Len(paragraphs)
    /\ IF LastThreadNotEmpty(currentThread)
       THEN /\ threads' = Flush(threads, currentThread)
            /\ marks' = Append(marks, NoMarks)
       ELSE UNCHANGED <<threads, marks>>
    /\ pc' = "number"
    /\ UNCHANGED <<ui, api, content, calls, paragraphs, pIdx, sentences, sIdx, currentThread,
                   remainingSentence, chunks, result>>

(***************************************************************************)
(* splitLongSentence: one action per iteration of the while loop.          *)
(***************************************************************************)
\* mutant: the chunk stops one character early
ChunkBeforeShort(s, k) == Trim(SubstringTo(s, k - 1)) \o Ellipsis

\* line 125 (and 141)
ChunkBefore(s, k) == Trim(SubstringTo(s, k)) \o Ellipsis

\* mutant: the rest starts one character late
RestAfterSkipsOne(s, k) == Ellipsis \o Trim(SubstringFrom(s, k + 1))

\* mutant: the rest does not get its leading ellipsis
RestAfterNoEllipsis(s, k) == Trim(SubstringFrom(s, k))

\* mutant: the part before the split is not taken off
RestAfterKeepsAll(s, k) == Ellipsis \o Trim(s)

\* line 129 (and 144)
RestAfter(s, k) == Ellipsis \o Trim(SubstringFrom(s, k))

\* lines 110-137: an iteration that finds a breakpoint
BreakpointSplit ==
    /\ pc = "while"
    /\ Len(remainingSentence) > MAX_TWEET_LENGTH
    /\ UsableBreakpoints(remainingSentence) # {}
    /\ LET k == SplitIndex(remainingSentence)
       IN  /\ chunks' = Append(chunks, ChunkBefore(remainingSentence, k))
           /\ remainingSentence' = RestAfter(remainingSentence, k)
    /\ UNCHANGED <<ui, api, content, calls, pc, paragraphs, pIdx, sentences, sIdx,
                   currentThread, threads, result, marks>>

\* mutant: the forced split reserves one character less than the ellipsis
ForcedIndexLate == MAX_TWEET_LENGTH - 2

\* mutant: the forced split is one character early
ForcedIndexEarly == MAX_TWEET_LENGTH - 4

\* mutant: no room is left for the ellipsis
ForcedIndexNoRoom == MAX_TWEET_LENGTH

\* the index of the forced split, lines 141 and 144
ForcedIndex == MAX_TWEET_LENGTH - 3

\* lines 110-145: an iteration that finds none and forces the split
ForcedSplit ==
    /\ pc = "while"
    /\ Len(remainingSentence) > MAX_TWEET_LENGTH
    /\ UsableBreakpoints(remainingSentence) = {}
    /\ chunks' = Append(chunks, ChunkBefore(remainingSentence, ForcedIndex))
    /\ remainingSentence' = RestAfter(remainingSentence, ForcedIndex)
    /\ UNCHANGED <<ui, api, content, calls, pc, paragraphs, pIdx, sentences, sIdx,
                   currentThread, threads, result, marks>>

\* lines 148-153: the loop is left, the last part is added, chunks returned
LastPart ==
    /\ pc = "while"
    /\ Len(remainingSentence) <= MAX_TWEET_LENGTH
    /\ chunks' = IF Len(remainingSentence) > 0
                 THEN Append(chunks, remainingSentence)
                 ELSE chunks
    /\ pc' = "chunks"
    /\ UNCHANGED <<ui, api, content, calls, paragraphs, pIdx, sentences, sIdx, currentThread,
                   threads, remainingSentence, result, marks>>

\* history: the ellipses injected into chunk j of m
ChunkMarks(j, m) == [lead |-> j > 1, trail |-> j < m]

\* mutant: the chunks are put in front
PushAllInFront(ts, cs) == cs \o ts

\* threads.push(...chunks)
PushAll(ts, cs) == ts \o cs

\* lines 42-43
PushChunks ==
    /\ pc = "chunks"
    /\ threads' = PushAll(threads, chunks)
    /\ marks' = marks \o [j \in 1..Len(chunks) |-> ChunkMarks(j, Len(chunks))]
    /\ sIdx' = sIdx + 1
    /\ pc' = "sentence"
    /\ UNCHANGED <<ui, api, content, calls, paragraphs, pIdx, sentences, currentThread,
                   remainingSentence, chunks, result>>

(***************************************************************************)
(* Numbering, lines 74-87.                                                 *)
(***************************************************************************)
\* mutant: the 0-based index is printed
NumberingFromZero(index, n) ==
    NumberString(index) \o <<"/">> \o NumberString(n) \o <<" ">>

\* `${index + 1}/${threads.length} ` for the 0-based index
Numbering(index, n) ==
    NumberString(index + 1) \o <<"/">> \o NumberString(n) \o <<" ">>

\* mutant: the length of the numbering is not counted
NumberingFitsAlone(thread, numbering) == Len(thread) <= MAX_TWEET_LENGTH

\* the test of line 78
NumberingFits(thread, numbering) ==
    Len(thread) + Len(numbering) <= MAX_TWEET_LENGTH

\* the callback of threads.map, lines 75-84
NumberThread(thread, index, n) ==
    IF NumberingFits(thread, Numbering(index, n))
    THEN Numbering(index, n) \o thread
    ELSE thread

AddNumbering ==
    /\ pc = "number"
    /\ result' = IF Len(threads) > 1
                 THEN [i \in 1..Len(threads) |->
                          NumberThread(threads[i], i - 1, Len(threads))]
                 ELSE threads
    /\ pc' = "done"
    /\ UNCHANGED <<ui, api, content, calls, paragraphs, pIdx, sentences, sIdx, currentThread,
                   threads, remainingSentence, chunks, marks>>

(***************************************************************************)
(* estimateTweetCount and isValidTweetLength, lines 163-178.               *)
(***************************************************************************)
\* Math.ceil(a / b) for integers a >= 0 and b > 0
Ceil(a, b) == (a + b - 1) \div b

\* the estimation factor 0.8 of line 167, in tenths
EstimationTenths == 8

\* mutant: the quotient is rounded down
estimateTweetCountFloor(text) ==
    (Len(text) * 10) \div (MAX_TWEET_LENGTH * EstimationTenths)

\* mutant: the estimation factor is left out
estimateTweetCountNoFactor(text) == Ceil(Len(text), MAX_TWEET_LENGTH)

\* Math.ceil(totalChars / (MAX_TWEET_LENGTH * 0.8)): the product is the
\* double 224 exactly, and the quotient of two integers below 2^53 by
\* division of doubles has the ceiling of the exact quotient
estimateTweetCount(text) ==
    Ceil(Len(text) * 10, MAX_TWEET_LENGTH * EstimationTenths)

\* text.length <= MAX_TWEET_LENGTH
isValidTweetLength(text) == Len(text) <= MAX_TWEET_LENGTH

Next ==
    \/ Start
    \/ NextParagraph
    \/ LongSentence
    \/ PackSentence
    \/ EndParagraph
    \/ FinalFlush
    \/ BreakpointSplit
    \/ ForcedSplit
    \/ LastPart
    \/ PushChunks
    \/ AddNumbering

Spec == Init /\ [][Next]_vars

\* the call has returned
Done == pc = "done"

\* The call runs to its end, nothing suspends it: weak fairness of Next.
\* This is WF_vars(Next) with ENABLED <<Next>>_vars written out as ~Done:
\* every state but the returned one has a step (one action's guard holds at
\* each position of the code).
FairSpec == Spec /\ ([]<>Done \/ []<><<Next>>_vars)

(***************************************************************************)
(* Callers: the exported functions are called one call after the other     *)
(* (a call is synchronous and runs to its return). The variables of the    *)
(* model keep what the last call left in them; a call starts from what its *)
(* own code initializes.                                                   *)
(***************************************************************************)
\* the number of calls of a behaviour
MaxCalls == 3

\* arguments of the calls of splitIntoThreads: nothing, a word, two
\* sentences, two paragraphs, a sentence to split at a breakpoint and by
\* force, a sentence of exactly the maximum, a paragraph of a sentence that
\* is too long by the white space at its end only, a sentence with a word
\* that starts with the letters of a conjunction
CallInputs ==
    { <<>>,
      <<"a">>,
      <<"a", ".", " ", "a">>,
      <<"a", "\n", "\n", "a">>,
      <<"a", " ">> \o Rep("d", MAX_TWEET_LENGTH),
      Rep("d", MAX_TWEET_LENGTH),
      Rep("b", MAX_TWEET_LENGTH - 3) \o Rep(" ", 4) \o <<"\n", "\n", "a">>,
      <<"a", " ", "o", "r", "a", "n", "g", "e", " ">>
          \o Rep("d", MAX_TWEET_LENGTH) }

\* the lengths of the arguments of estimateTweetCount
TextLengths == {0, 1, 223, 224, 225, 280, 448, 449}

\* arguments of estimateTweetCount: for each length a text and white space
Texts == {Rep(c, n) : c \in {"a", " "}, n \in TextLengths}

\* no call is running
IdleInit ==
    /\ content = <<>>
    /\ pc = "idle"
    /\ paragraphs = <<>>
    /\ pIdx = 1
    /\ sentences = <<>>
    /\ sIdx = 1
    /\ currentThread = <<>>
    /\ threads = <<>>
    /\ remainingSentence = <<>>
    /\ chunks = <<>>
    /\ result = <<>>
    /\ marks = <<>>
    /\ calls = <<>>
    /\ PageInit
    /\ HandlerIdle

\* line 15: splitIntoThreads is called
CallSplitIntoThreads ==
    /\ pc = "idle"
    /\ Len(calls) < MaxCalls
    /\ content' \in CallInputs
    /\ pc' = "start"
    /\ UNCHANGED <<ui, api, calls, paragraphs, pIdx, sentences, sIdx, currentThread,
                   threads, remainingSentence, chunks, result, marks>>

\* lines 84, 87: splitIntoThreads returns
ReturnThreads ==
    /\ pc = "done"
    /\ calls' = Append(calls, [fn |-> "splitIntoThreads", arg |-> content,
                               ret |-> result])
    /\ pc' = "idle"
    /\ UNCHANGED <<ui, api, content, paragraphs, pIdx, sentences, sIdx, currentThread,
                   threads, remainingSentence, chunks, result, marks>>

CallsNext == Next \/ CallSplitIntoThreads \/ ReturnThreads

CallsSpec == IdleInit /\ [][CallsNext]_vars

\* lines 163-168: a call of estimateTweetCount, from its entry to its return
CallEstimateTweetCount ==
    /\ pc = "idle"
    /\ Len(calls) < MaxCalls
    /\ \E text \in Texts :
           calls' = Append(calls, [fn |-> "estimateTweetCount", arg |-> text,
                                   ret |-> estimateTweetCount(text)])
    /\ UNCHANGED <<ui, api, content, pc, paragraphs, pIdx, sentences, sIdx,
                   currentThread, threads, remainingSentence, chunks, result,
                   marks>>

EstimateSpec == IdleInit /\ [][CallEstimateTweetCount]_vars

(***************************************************************************)
(* Short texts, character by character, for the split into sentences.      *)
(***************************************************************************)
\* the length of a short text
MaxText == 5

TextChars == {"a", ".", "!", "?", " ", "\n"}

RECURSIVE TextsOf(_)
TextsOf(n) ==
    IF n = 0 THEN {<<>>}
    ELSE LET shorter == TextsOf(n - 1)
         IN  shorter \cup {t \o <<c>> : t \in shorter, c \in TextChars}

\* splitIntoThreads is called with a short text
ShortTextInit ==
    /\ content \in TextsOf(MaxText)
    /\ pc = "start"
    /\ paragraphs = <<>>
    /\ pIdx = 1
    /\ sentences = <<>>
    /\ sIdx = 1
    /\ currentThread = <<>>
    /\ threads = <<>>
    /\ remainingSentence = <<>>
    /\ chunks = <<>>
    /\ result = <<>>
    /\ marks = <<>>
    /\ calls = <<>>
    /\ PageInit
    /\ HandlerIdle

\* lines 17-30: the call up to the split of the first paragraph
SentenceSpec == ShortTextInit /\ [][Start \/ NextParagraph]_vars

(***************************************************************************)
(* Vocabulary of the properties.                                           *)
(***************************************************************************)
\* s without its whitespace
NoWS(s) == SelectSeq(s, LAMBDA c : ~IsWS(c))

\* the strings of ss one after the other
RECURSIVE Concat(_)
Concat(ss) == IF ss = <<>> THEN <<>> ELSE Head(ss) \o Concat(Tail(ss))

\* the strings of ss joined with a single space
RECURSIVE JoinWithSpace(_)
JoinWithSpace(ss) ==
    IF ss = <<>> THEN <<>>
    ELSE IF Len(ss) = 1 THEN Head(ss)
    ELSE Head(ss) \o <<" ">> \o JoinWithSpace(Tail(ss))

RECURSIVE RemoveIndexes(_, _)
RemoveIndexes(s, D) ==
    IF D = {} THEN s
    ELSE LET d == Max(D)
         IN  RemoveIndexes(SubSeq(s, 1, d - 1) \o SubSeq(s, d + 1, Len(s)), D \ {d})

\* every whitespace run of s collapsed to one space
Collapse(s) ==
    LET kept == RemoveIndexes(s, {i \in 2..Len(s) : IsWS(s[i]) /\ IsWS(s[i - 1])})
    IN  [i \in 1..Len(kept) |-> IF IsWS(kept[i]) THEN " " ELSE kept[i]]

\* t without the ellipses that m records as injected
StripMarks(t, m) ==
    SubSeq(t, IF m.lead THEN 4 ELSE 1, IF m.trail THEN Len(t) - 3 ELSE Len(t))

\* the numbering prefix "k/n " of the segment at 1-based position k of n
Prefix(k, n) == NumberString(k) \o <<"/">> \o NumberString(n) \o <<" ">>

\* segment i of the result carries its numbering prefix
Numbered(i) == Len(result) > 1 /\ IsPrefix(Prefix(i, Len(result)), result[i])

\* segment i of the result without the numbering injected into it
Unnumbered(i) ==
    IF Numbered(i)
    THEN SubSeq(result[i], Len(Prefix(i, Len(result))) + 1, Len(result[i]))
    ELSE result[i]

\* the text of the input that segment i of the result carries
SegmentText(i) == StripMarks(Unnumbered(i), marks[i])

SegmentTexts == [i \in 1..Len(result) |-> SegmentText(i)]

\* the text of the sentence that chunk j carries
ChunkText(j) == StripMarks(chunks[j], ChunkMarks(j, Len(chunks)))

ChunkTexts == [j \in 1..Len(chunks) |-> ChunkText(j)]

\* the sentence that splitLongSentence is splitting
LongSentenceArg == sentences[sIdx]

\* the position after the last of the texts ts[j], ts[j+1], ..., each found
\* in s at the first character that is not whitespace at or after the end
\* of the one before (from, for ts[j]); 0 if one of them is not there
RECURSIVE SliceEnd(_, _, _, _)
SliceEnd(ts, s, j, from) ==
    IF j > Len(ts) THEN from
    ELSE LET a == IF ts[j] = <<>> THEN from ELSE FirstNonWS(s, from)
         IN  IF IsPrefixAt(ts[j], s, a)
             THEN SliceEnd(ts, s, j + 1, a + Len(ts[j]))
             ELSE 0

\* the texts ts are consecutive slices of s, and what s has before, between
\* and after them is whitespace
OnlyWhitespaceRemoved(ts, s) ==
    LET e == SliceEnd(ts, s, 1, 1)
    IN  e # 0 /\ FirstNonWS(s, e) > Len(s)

\* the same, and the whitespace is all next to a cut: none before the first
\* text, none after a last text that is not empty
OnlyCutWhitespaceRemoved(ts, s) ==
    /\ OnlyWhitespaceRemoved(ts, s)
    /\ ts[1] = <<>> \/ ~IsWS(s[1])
    /\ ts[Len(ts)] = <<>> \/ SliceEnd(ts, s, 1, 1) = Len(s) + 1

IsDigit(c) == \E d \in 1..10 : DigitChars[d] = c

DigitValue(c) == (CHOOSE d \in 1..10 : DigitChars[d] = c) - 1

\* ds is the decimal numeral of a number, without leading zeros
IsDecimal(ds) ==
    /\ ds # <<>>
    /\ \A i \in 1..Len(ds) : IsDigit(ds[i])
    /\ Len(ds) > 1 => ds[1] # "0"

RECURSIVE ParseNat(_)
ParseNat(ds) ==
    IF ds = <<>> THEN 0
    ELSE 10 * ParseNat(SubSeq(ds, 1, Len(ds) - 1)) + DigitValue(ds[Len(ds)])

RECURSIVE NumDigits(_)
NumDigits(n) == IF n < 10 THEN 1 ELSE 1 + NumDigits(n \div 10)

\* p reads "k/n "
ReadsAs(p, k, n) ==
    /\ Len(p) = NumDigits(k) + NumDigits(n) + 2
    /\ p[NumDigits(k) + 1] = "/"
    /\ p[Len(p)] = " "
    /\ IsDecimal(SubSeq(p, 1, NumDigits(k)))
    /\ ParseNat(SubSeq(p, 1, NumDigits(k))) = k
    /\ IsDecimal(SubSeq(p, NumDigits(k) + 2, Len(p) - 1))
    /\ ParseNat(SubSeq(p, NumDigits(k) + 2, Len(p) - 1)) = n

\* s is a single sentence of at most the maximum: not empty, no whitespace
\* at its ends, no blank line, no sentence boundary, no line end to normalize
IsSingleSentence(s) ==
    /\ s # <<>>
    /\ Len(s) <= MAX_TWEET_LENGTH
    /\ ~IsWS(s[1])
    /\ ~IsWS(s[Len(s)])
    /\ ParagraphBreaks(s) = {}
    /\ SentenceBreaks(s) = {}
    /\ CRLFs(s) = {}

\* a middle fragment is part of the result
HasMiddleFragment == \E i \in 1..Len(marks) : marks[i].lead /\ marks[i].trail

(***************************************************************************)
(* Properties.                                                             *)
(***************************************************************************)

\* C1: every segment has at most MAX_TWEET_LENGTH characters, numbering
\* prefix and ellipses included: the segments pushed by the packer, every
\* chunk of a sentence that is too long (first, middle, last), and the
\* segments returned after numbering.
C1_SegmentsWithinMax ==
    /\ \A i \in 1..Len(threads) : Len(threads[i]) <= MAX_TWEET_LENGTH
    /\ \A j \in 1..Len(chunks) : Len(chunks[j]) <= MAX_TWEET_LENGTH
    /\ \A i \in 1..Len(result) : Len(result[i]) <= MAX_TWEET_LENGTH

\* a numbered result with a middle fragment and a segment of exactly the maximum
C1_Witness ==
    /\ Done
    /\ HasMiddleFragment
    /\ \E i \in 1..Len(result) : Numbered(i)
    /\ \E i \in 1..Len(result) : Len(result[i]) = MAX_TWEET_LENGTH

\* C2 as stated: the segments, without the injected numbering and ellipses,
\* joined with a single space, equal the normalized input once every
\* whitespace run is collapsed to one space.
C2_Reconstruction ==
    Done => Collapse(JoinWithSpace(SegmentTexts)) = Collapse(Normalize(content))

\* C2 as amended: the segments, without the injected numbering and ellipses,
\* joined with a single space, equal the normalized input once all
\* whitespace is removed from both: no character that is not whitespace is
\* lost, invented or moved.
C2_NoContentLost ==
    Done => NoWS(JoinWithSpace(SegmentTexts)) = NoWS(Normalize(content))

\* a sentence was cut, every segment has text, and the joined segments
\* differ from the input in their whitespace
C2_Witness ==
    /\ Done
    /\ \E i \in 1..Len(marks) : marks[i].trail
    /\ \A i \in 1..Len(result) : SegmentText(i) # <<>>
    /\ Collapse(JoinWithSpace(SegmentTexts)) # Collapse(Normalize(content))

\* C3 as stated: the chunks of a sentence that is too long, without the
\* injected ellipses, are consecutive slices of the sentence that cover it,
\* and the only characters of the sentence outside them are whitespace next
\* to a cut.
C3_OnlyCutWhitespaceLost ==
    pc = "chunks" => OnlyCutWhitespaceRemoved(ChunkTexts, LongSentenceArg)

\* C3 as amended: the chunks, without the injected ellipses, are consecutive
\* slices of the sentence in order, and the only characters of the sentence
\* outside them are whitespace: next to a cut, or at the start or the end of
\* the sentence. No character that is not whitespace is dropped, duplicated
\* or invented.
C3_OnlyWhitespaceLost ==
    pc = "chunks" => OnlyWhitespaceRemoved(ChunkTexts, LongSentenceArg)

\* a sentence that starts with whitespace was split
C3_Witness ==
    /\ pc = "chunks"
    /\ IsWS(LongSentenceArg[1])
    /\ Len(chunks) >= 2

\* C4: the segments are in source order: for every k, the texts of the first
\* k segments, one after the other, are the beginning of the input (both
\* without whitespace); so a character of a later segment is never before
\* one of an earlier segment, and inside a segment the order is the input's.
C4_SourceOrder ==
    Done =>
        \A k \in 1..Len(result) :
            IsPrefix(NoWS(Concat(SubSeq(SegmentTexts, 1, k))),
                     NoWS(Normalize(content)))

\* a packed segment with text is followed by the fragments of a sentence
C4_Witness ==
    /\ Done
    /\ \E i, j \in 1..Len(result) :
           /\ i < j
           /\ ~marks[i].lead /\ ~marks[i].trail /\ NoWS(SegmentText(i)) # <<>>
           /\ marks[j].lead /\ NoWS(SegmentText(j)) # <<>>

\* C5 as stated: either every returned segment carries a numbering prefix
\* or none does.
C5_AllOrNone ==
    Done =>
        \/ \A i \in 1..Len(result) : Numbered(i)
        \/ \A i \in 1..Len(result) : ~Numbered(i)

\* C5 as amended: either no returned segment carries a numbering prefix, or
\* every segment carries one except those that are too long to take it: a
\* segment without prefix has len(segment) + len(prefix) > MAX, and a segment
\* with prefix is within MAX.
C5_AllWithRoomOrNone ==
    Done =>
        \/ \A i \in 1..Len(result) : ~Numbered(i)
        \/ \A i \in 1..Len(result) :
               IF Numbered(i)
               THEN Len(result[i]) <= MAX_TWEET_LENGTH
               ELSE Len(result[i]) + Len(Prefix(i, Len(result))) > MAX_TWEET_LENGTH

\* a result with a numbered segment and a segment left without number
C5_Witness ==
    /\ Done
    /\ \E i \in 1..Len(result) : Numbered(i)
    /\ \E i \in 1..Len(result) : ~Numbered(i)

\* C6: when there is more than one segment, the result has the same number
\* of elements, and element i (0-based) reads "{i+1}/{n} " followed by the
\* segment when that fits in MAX, and is the segment otherwise.
C6_Numbering ==
    (Done /\ Len(threads) > 1) =>
        /\ Len(result) = Len(threads)
        /\ \A i \in 1..Len(threads) :
               LET w == NumDigits(i) + NumDigits(Len(threads)) + 2
               IN  IF w + Len(threads[i]) <= MAX_TWEET_LENGTH
                   THEN /\ Len(result[i]) = w + Len(threads[i])
                        /\ ReadsAs(SubSeq(result[i], 1, w), i, Len(threads))
                        /\ SubSeq(result[i], w + 1, Len(result[i])) = threads[i]
                   ELSE result[i] = threads[i]

\* three segments or more, some numbered and some left as they are
C6_Witness ==
    /\ Done
    /\ Len(threads) >= 3
    /\ \E i \in 1..Len(threads) : result[i] = threads[i]
    /\ \E i \in 1..Len(threads) : result[i] # threads[i]

\* C7: the empty input and an input of whitespace only give the empty
\* sequence.
C7_EmptyInput == (Done /\ Trim(content) = <<>>) => result = <<>>

\* an input of whitespace only was processed
C7_Witness == Done /\ content # <<>> /\ Trim(content) = <<>>

\* C8: an input that is a single sentence of 1..MAX characters gives exactly
\* one segment, equal to the input, without numbering.
C8_SingleSentence == (Done /\ IsSingleSentence(content)) => result = <<content>>

\* C9: in the chunks of a sentence that is too long, every chunk but the last
\* ends with "...", every chunk but the first begins with "...", and the last
\* one ends with the end of the sentence: nothing is added after it.
C9_Ellipses ==
    pc = "chunks" =>
        /\ Len(chunks) >= 2
        /\ \A j \in 1..(Len(chunks) - 1) : IsSuffix(Ellipsis, chunks[j])
        /\ \A j \in 2..Len(chunks) : IsPrefix(Ellipsis, chunks[j])
        /\ IsSuffix(SubSeq(chunks[Len(chunks)], 4, Len(chunks[Len(chunks)])),
                    Trim(LongSentenceArg))

\* a sentence was split in three chunks or more, the last with text
C9_Witness ==
    /\ pc = "chunks"
    /\ Len(chunks) >= 3
    /\ Len(chunks[Len(chunks)]) > 3

\* the split of an iteration that finds a breakpoint is not at position 0
SplitNotAtZero ==
    (/\ pc = "while"
     /\ Len(remainingSentence) > MAX_TWEET_LENGTH
     /\ UsableBreakpoints(remainingSentence) # {})
        => SplitIndex(remainingSentence) > 0

\* after the first split, an iteration of the loop shortens what remains
LoopShortens ==
    (pc = "while" /\ pc' = "while" /\ chunks # <<>>)
        => Len(remainingSentence') < Len(remainingSentence)

\* C10: every call returns: no split is taken at position 0, after the first
\* split every iteration of the loop of splitLongSentence shortens the
\* remaining text, and the call reaches its return.
C10_Total == []SplitNotAtZero /\ [][LoopShortens]_vars /\ <>Done

\* a call that went three times and more around the loop has returned
C10_Witness == Done /\ Len(chunks) >= 4

\* the packer is about to pack a sentence that is not too long (line 47)
AtPack ==
    /\ pc = "sentence"
    /\ sIdx <= Len(sentences)
    /\ Len(sentences[sIdx]) <= MAX_TWEET_LENGTH

\* C11: isValidTweetLength(t) is true exactly when len(t) <= 280 (true at
\* 280, false at 281), and the packer accepts a sentence into the current
\* segment if and only if isValidTweetLength of the resulting segment text
\* is true, also for an empty current segment and a sentence of exactly 280.
C11_ValidAgreesWithPacker ==
    /\ isValidTweetLength(Rep("a", 280))
    /\ ~isValidTweetLength(Rep("a", 281))
    /\ isValidTweetLength(content) <=> Len(content) <= 280
    /\ AtPack =>
           (Fits(currentThread, sentences[sIdx])
               <=> isValidTweetLength(Extended(currentThread, sentences[sIdx])))

\* the calls of estimateTweetCount that have returned
EstimateCalls == {i \in 1..Len(calls) : calls[i].fn = "estimateTweetCount"}

\* C12: estimateTweetCount(content) is ceil(len(content) / 224), so it
\* depends on the length of content only, it is 0 for the empty string, and
\* it does not decrease when the length grows: len(a) <= len(b) implies
\* estimateTweetCount(a) <= estimateTweetCount(b).
C12_Estimate ==
    /\ \A i \in EstimateCalls :
           /\ calls[i].ret = Ceil(Len(calls[i].arg), 224)
           /\ calls[i].arg = <<>> => calls[i].ret = 0
    /\ \A i, j \in EstimateCalls :
           /\ Len(calls[i].arg) = Len(calls[j].arg) => calls[i].ret = calls[j].ret
           /\ Len(calls[i].arg) <= Len(calls[j].arg) => calls[i].ret <= calls[j].ret

\* estimates of two texts of one length, of a longer text with a greater
\* estimate, and of a text one character over a multiple of 224
C12_Witness ==
    /\ \E i, j \in EstimateCalls :
           calls[i].arg # calls[j].arg /\ Len(calls[i].arg) = Len(calls[j].arg)
    /\ \E i, j \in EstimateCalls :
           Len(calls[i].arg) < Len(calls[j].arg) /\ calls[i].ret < calls[j].ret
    /\ \E i \in EstimateCalls : Len(calls[i].arg) = 225 /\ calls[i].ret = 2

\* C13 as stated: the estimate is an upper bound of the number of segments
\* that splitIntoThreads returns for the same input.
C13_UpperBound == Done => estimateTweetCount(content) >= Len(result)

\* C13 as amended: the estimate is no bound of the number of segments; it is
\* at least 1 whenever splitIntoThreads returns at least one segment for the
\* same input.
C13_EstimateOfNonEmpty ==
    (Done /\ Len(result) >= 1) => estimateTweetCount(content) >= 1

\* more segments were returned than estimated, each of them with text
C13_Witness ==
    /\ Done
    /\ Len(result) > estimateTweetCount(content)
    /\ \A i \in 1..Len(result) : SegmentText(i) # <<>>

\* the calls of splitIntoThreads that have returned
SplitCalls == {i \in 1..Len(calls) : calls[i].fn = "splitIntoThreads"}

\* C14: two calls of splitIntoThreads with the same input return the same
\* sequence, whatever calls ran before and between them, and a call starts
\* with an empty current segment and an empty output list: nothing of an
\* earlier call is in them.
C14_Independent ==
    /\ \A i, j \in SplitCalls :
           calls[i].arg = calls[j].arg => calls[i].ret = calls[j].ret
    /\ (pc = "paragraph" /\ pIdx = 1) => (currentThread = <<>> /\ threads = <<>>)

\* the same input was split before and after another one, each call left
\* text in the variables, and the calls returned segments
C14_Witness ==
    /\ Len(calls) = 3
    /\ SplitCalls = {1, 2, 3}
    /\ calls[1].arg = calls[3].arg
    /\ calls[2].arg # calls[1].arg
    /\ Len(calls[1].ret) >= 2
    /\ calls[2].ret # <<>>
    /\ chunks # <<>>
    /\ currentThread # <<>>

\* C15: a step of the packer on a sentence of at most MAX: if the current
\* segment followed by one space and the sentence has length <= MAX, the
\* current segment becomes the candidate (the sentence alone for an empty
\* current segment) and nothing is emitted; otherwise the current segment is
\* trimmed and appended to the output and the sentence becomes the current
\* segment. So whenever the packer emits a segment, the segment as held
\* before, one space and the sentence that opens the next segment are longer
\* than MAX together.
C15_GreedyStep ==
    AtPack =>
        LET s == sentences[sIdx]
        IN  /\ IF Len(currentThread) + 1 + Len(s) <= MAX_TWEET_LENGTH
               THEN /\ threads' = threads
                    /\ \/ currentThread = <<>> /\ currentThread' = s
                       \/ /\ currentThread # <<>>
                          /\ currentThread' = currentThread \o <<" ">> \o s
               ELSE /\ threads' = Append(threads, Trim(currentThread))
                    /\ currentThread' = s
            /\ threads' # threads =>
                   Len(currentThread) + 1 + Len(s) > MAX_TWEET_LENGTH

AtLongSentence ==
    /\ pc = "sentence"
    /\ sIdx <= Len(sentences)
    /\ Len(sentences[sIdx]) > MAX_TWEET_LENGTH

\* the steps of C16
C16_OversizedStep ==
    /\ AtLongSentence =>
           /\ threads' = IF currentThread # <<>>
                         THEN Append(threads, Trim(currentThread))
                         ELSE threads
           /\ currentThread' = <<>>
    /\ pc = "while" => threads' = threads /\ currentThread' = <<>>
    /\ pc = "chunks" =>
           /\ threads' = threads \o chunks
           /\ currentThread' = <<>>
           /\ sIdx' = sIdx + 1

\* C16: at a sentence longer than MAX the current segment is emitted first if
\* it is not empty, and reset to empty; the current segment stays empty and
\* the output untouched while the sentence is split; then all the fragments
\* are appended to the output, in order, and the next sentence starts from
\* an empty current segment. So a fragment shares no segment with the text of
\* another sentence, the text before it is emitted before its first fragment
\* and the text after it starts a fresh segment after the last one.
C16_Oversized ==
    /\ [](pc \in {"while", "chunks"} => currentThread = <<>>)
    /\ [][C16_OversizedStep]_vars

\* the result has a segment of text, then the fragments of a sentence, then a
\* segment of the text after it
C16_Witness ==
    /\ Done
    /\ \E i, j \in 1..Len(result) :
           /\ i + 1 < j
           /\ marks[i] = NoMarks /\ SegmentText(i) # <<>>
           /\ marks[i + 1].trail /\ ~marks[i + 1].lead
           /\ marks[j - 1].lead /\ ~marks[j - 1].trail
           /\ marks[j] = NoMarks /\ SegmentText(j) # <<>>
           /\ \A k \in (i + 1)..(j - 1) : marks[k] # NoMarks

\* the sentences of the paragraph are all packed (line 59)
AtParagraphEnd == pc = "sentence" /\ sIdx > Len(sentences)

\* the paragraphs are all processed (line 68)
AtLastFlush == pc = "paragraph" /\ pIdx > Len(paragraphs)

\* the paragraph-break marker
Marker == <<"\n", "\n">>

\* C17: at the end of a paragraph, if len(currentSegment) + 2 <= MAX the
\* two-newline marker is appended and nothing is emitted; otherwise the
\* length is MAX-1 or MAX, the segment is emitted (trimmed) and reset to
\* empty. After the last paragraph the current segment is emitted only if it
\* is not empty after trimming: a marker alone gives no segment.
C17_ParagraphEndStep ==
    /\ AtParagraphEnd =>
           IF Len(currentThread) + 2 <= MAX_TWEET_LENGTH
           THEN /\ currentThread' = currentThread \o Marker
                /\ threads' = threads
           ELSE /\ Len(currentThread) \in {MAX_TWEET_LENGTH - 1, MAX_TWEET_LENGTH}
                /\ threads' = Append(threads, Trim(currentThread))
                /\ currentThread' = <<>>
    /\ AtLastFlush =>
           /\ Trim(currentThread) # <<>> =>
                  threads' = Append(threads, Trim(currentThread))
           /\ Trim(currentThread) = <<>> => threads' = threads

C17_ParagraphEnd == [][C17_ParagraphEndStep]_vars

\* a paragraph ended with a segment of MAX-1 or MAX, which was emitted, and
\* the end of the input was reached with the marker alone pending, which
\* was not emitted
C17_Witness ==
    /\ pc = "number"
    /\ Len(paragraphs) >= 2
    /\ currentThread = Marker
    /\ \E i \in 1..(Len(threads) - 1) :
           marks[i] = NoMarks /\ Len(threads[i]) >= MAX_TWEET_LENGTH - 1

\* C18: in a segment, two consecutive sentences of one paragraph are joined
\* by a single space, and the first sentence of the next paragraph is put
\* directly after the two-newline marker, with nothing else between; the
\* test for absorbing it counts the marker and the sentence only.
C18_JoinerStep ==
    AtPack =>
        LET s == sentences[sIdx]
        IN  IF IsSuffix(Marker, currentThread)
            THEN IF Len(currentThread) + Len(s) <= MAX_TWEET_LENGTH
                 THEN currentThread' = currentThread \o s
                 ELSE currentThread' = s
            ELSE (/\ currentThread # <<>>
                  /\ Len(currentThread) + 1 + Len(s) <= MAX_TWEET_LENGTH)
                     => currentThread' = currentThread \o <<" ">> \o s

C18_Joiners == [][C18_JoinerStep]_vars

\* an iteration of the loop of splitLongSentence starts (line 110)
AtLoop == pc = "while" /\ Len(remainingSentence) > MAX_TWEET_LENGTH

\* the matches of breakpoint b at positions from..MAX-3
CutsOf(s, b, from) ==
    {k \in Matches(s, b) : from <= k /\ k <= MAX_TWEET_LENGTH - 3}

\* the breakpoints with such a match
ClassesOf(s, from) == {b \in 1..NumBreakpoints : CutsOf(s, b, from) # {}}

\* the cut is at the last such match of the first breakpoint that has one
CutAtLastOfFirst(from) ==
    (AtLoop /\ ClassesOf(remainingSentence, from) # {}) =>
        LET s == remainingSentence
            k == Max(CutsOf(s, Min(ClassesOf(s, from)), from))
        IN  /\ chunks' = Append(chunks, Trim(SubSeq(s, 1, k)) \o Ellipsis)
            /\ remainingSentence' = Ellipsis \o Trim(SubSeq(s, k + 1, Len(s)))

\* C19 as stated: in each iteration the breakpoints are tried in the order
\* (a), (b), (c), (d); the cut is at the last match at a position <= MAX-3
\* of the first breakpoint that has a match at a position <= MAX-3, whatever
\* later cut a breakpoint of lower priority offers.
C19_PriorityFromZero == [][CutAtLastOfFirst(0)]_vars

\* C19 as amended: the same, for the matches at a position from 1 to MAX-3:
\* a match at position 0 is never used and does not select its breakpoint.
C19_Priority == [][CutAtLastOfFirst(1)]_vars

\* an iteration cuts at a breakpoint although one of lower priority offers a
\* later cut
C19_Witness ==
    /\ AtLoop
    /\ UsableBreakpoints(remainingSentence) # {}
    /\ \E b \in UsableBreakpoints(remainingSentence) :
           /\ b > Min(UsableBreakpoints(remainingSentence))
           /\ Max(Usable(remainingSentence, b)) > SplitIndex(remainingSentence)

\* the forced cut of C20
C20_ForcedStep ==
    (AtLoop /\ ClassesOf(remainingSentence, 1) = {}) =>
        LET s == remainingSentence
        IN  /\ chunks' =
                   Append(chunks, Trim(SubSeq(s, 1, MAX_TWEET_LENGTH - 3)) \o Ellipsis)
            /\ remainingSentence' =
                   Ellipsis \o Trim(SubSeq(s, MAX_TWEET_LENGTH - 2, Len(s)))

\* the fragments of a sentence of length L > MAX without whitespace
C20_Fragments ==
    (pc = "chunks" /\ NoWS(LongSentenceArg) = LongSentenceArg) =>
        LET L == Len(LongSentenceArg)
        IN  /\ Len(chunks) =
                   1 + Ceil(L - MAX_TWEET_LENGTH, MAX_TWEET_LENGTH - 6)
            /\ Len(ChunkText(1)) = MAX_TWEET_LENGTH - 3
            /\ \A j \in 2..(Len(chunks) - 1) :
                   Len(ChunkText(j)) = MAX_TWEET_LENGTH - 6
            /\ L = 400 =>
                   /\ Len(chunks) = 2
                   /\ Len(chunks[1]) = 280
                   /\ Len(chunks[2]) = 126

\* C20: when no breakpoint has a usable match, the next fragment is the
\* first MAX-3 characters of the remaining text, trimmed, followed by "...",
\* and the remaining text becomes "..." followed by the rest, trimmed. A
\* sentence of length L > MAX without whitespace gives exactly
\* 1 + ceil((L - MAX) / (MAX - 6)) fragments, the first with MAX-3
\* characters of the sentence and each middle one with MAX-6; L = 400 gives
\* 2 fragments, of lengths 280 and 126.
C20_ForcedCut == []C20_Fragments /\ [][C20_ForcedStep]_vars

\* a sentence without whitespace was split into a first, a middle and a last
\* fragment
C20_Witness ==
    /\ pc = "chunks"
    /\ NoWS(LongSentenceArg) = LongSentenceArg
    /\ Len(chunks) >= 3

\* C21: the leading ellipsis of a continuation counts against the budget of
\* its own fragment: after the first cut the remaining text begins with
\* "...", the loop is left only when the remaining text, ellipsis included,
\* is within MAX, and a cut is at a position <= MAX-3 of that text. So every
\* fragment is within MAX, a last fragment holds at most MAX-3 characters of
\* the sentence and a middle fragment at most MAX-6.
C21_Budget ==
    /\ (pc = "while" /\ chunks # <<>>) => IsPrefix(Ellipsis, remainingSentence)
    /\ pc = "chunks" =>
           /\ Len(remainingSentence) <= MAX_TWEET_LENGTH
           /\ chunks # <<>> /\ chunks[Len(chunks)] = remainingSentence
           /\ \A j \in 1..Len(chunks) : Len(chunks[j]) <= MAX_TWEET_LENGTH
           /\ Len(ChunkText(Len(chunks))) <= MAX_TWEET_LENGTH - 3
           /\ \A j \in 2..(Len(chunks) - 1) :
                  Len(ChunkText(j)) <= MAX_TWEET_LENGTH - 6

\* a sentence was split and its last fragment is full: the ellipsis and
\* MAX-3 characters of the sentence
C21_Witness ==
    /\ pc = "chunks"
    /\ Len(chunks) >= 2
    /\ Len(chunks[Len(chunks)]) = MAX_TWEET_LENGTH
    /\ Len(ChunkText(Len(chunks))) = MAX_TWEET_LENGTH - 3

\* the whitespace characters of p that immediately follow '.', '!' or '?'
Boundaries(p) ==
    {i \in 2..Len(p) : IsWS(p[i]) /\ p[i - 1] \in {".", "!", "?"}}

\* S[j], S[j+1], ... are in p from position from on, one after the other,
\* each but the last followed by a whitespace run that is left out, and
\* they end where p ends
RECURSIVE CutAtRuns(_, _, _, _)
CutAtRuns(S, p, j, from) ==
    /\ IsPrefixAt(S[j], p, from)
    /\ LET e == from + Len(S[j])
       IN  IF j = Len(S) THEN e = Len(p) + 1
           ELSE /\ e <= Len(p)
                /\ IsWS(p[e])
                /\ CutAtRuns(S, p, j + 1, FirstNonWS(p, e))

\* the paragraph that was just split (line 30)
JustSplit == pc = "sentence" /\ sIdx = 1

\* C22: the sentences of a paragraph are the paragraph cut at each
\* whitespace run that immediately follows '.', '!' or '?': there is one cut
\* for each such run and none elsewhere, the punctuation stays at the end of
\* the sentence before the cut, the whole run is removed, every sentence but
\* the last ends with '.', '!' or '?', punctuation that is not followed by
\* whitespace gives no cut, and a paragraph without such a run is one
\* sentence.
C22_SentenceSplit ==
    JustSplit =>
        LET p == paragraphs[pIdx]
        IN  /\ Len(sentences) = 1 + Cardinality(Boundaries(p))
            /\ CutAtRuns(sentences, p, 1, 1)
            /\ \A j \in 1..(Len(sentences) - 1) :
                   /\ sentences[j] # <<>>
                   /\ sentences[j][Len(sentences[j])] \in {".", "!", "?"}
            /\ \A j \in 2..Len(sentences) :
                   sentences[j] = <<>> \/ ~IsWS(sentences[j][1])
            /\ \A j \in 1..Len(sentences) : Boundaries(sentences[j]) = {}
            /\ Boundaries(p) = {} => sentences = <<p>>

\* a paragraph was cut after a punctuation mark followed by whitespace, and
\* not at one that is followed by a letter
C22_Witness ==
    /\ JustSplit
    /\ Len(sentences) = 2
    /\ \E i \in 2..Len(sentences[1]) :
           sentences[1][i] = "a" /\ sentences[1][i - 1] \in {".", "!", "?"}

IsLetter(c) == \E k \in 1..26 : LowerCase[k] = Lower(c)

\* one of the conjunctions is at position i of s as a complete word: no
\* letter follows it
ConjunctionWordAt(s, i) ==
    \E c \in 1..Len(Conjunctions) :
        /\ i + Len(Conjunctions[c]) - 1 <= Len(s)
        /\ \A j \in 1..Len(Conjunctions[c]) :
               Lower(s[i + j - 1]) = Conjunctions[c][j]
        /\ i + Len(Conjunctions[c]) <= Len(s) =>
               ~IsLetter(s[i + Len(Conjunctions[c])])

\* the word after the whitespace run that starts at match.index k
AfterRun(s, k) == RunEnd(s, k + 1) + 1

\* C23: a breakpoint of class (c) is a whitespace run immediately followed by
\* one of the conjunctions as a complete word (case-insensitive), and a cut
\* of class (c) is made only there; whitespace before a longer word that
\* starts with the letters of a conjunction is no breakpoint of class (c).
C23_WholeConjunction ==
    AtLoop =>
        /\ \A k \in Matches(remainingSentence, 3) :
               ConjunctionWordAt(remainingSentence, AfterRun(remainingSentence, k))
        /\ (/\ UsableBreakpoints(remainingSentence) # {}
            /\ Min(UsableBreakpoints(remainingSentence)) = 3)
               => ConjunctionWordAt(remainingSentence,
                      AfterRun(remainingSentence, SplitIndex(remainingSentence)))

\* C24: no returned segment is empty or is a numbering prefix alone, for any
\* input.
C24_NoEmptySegment ==
    Done =>
        \A i \in 1..Len(result) :
            /\ result[i] # <<>>
            /\ result[i] # Prefix(i, Len(result))
            /\ Trim(result[i]) # Trim(Prefix(i, Len(result)))

\* C25: every fragment of a sentence that is too long holds at least one
\* character of the sentence that is not whitespace, besides its ellipses: a
\* fragment "..." or "......" is never emitted.
C25_NoEmptyFragment ==
    pc = "chunks" =>
        \A j \in 1..Len(chunks) :
            /\ NoWS(ChunkText(j)) # <<>>
            /\ chunks[j] # Ellipsis
            /\ chunks[j] # Ellipsis \o Ellipsis

(***************************************************************************)
(* The page: pages/thread-builder.tsx with components/ThreadInput.tsx and  *)
(* components/ThreadPreview.tsx.  The handlers are modelled as the         *)
(* functions they are: a handler can be invoked whenever no other handler  *)
(* runs (one thread of control) and the uploader, a modal dialog, is       *)
(* closed; the disabled attributes of the buttons are not guards of the    *)
(* model, the handlers' own tests are.  The variable content is the state  *)
(* content of ThreadInput, the argument of the transform.  An item of the  *)
(* list is its text and whether it has an image and a video.               *)
(***************************************************************************)

\* the number of handlers invoked in a behaviour
MaxOps == 5

\* what the user types: nothing, a blank, a word, a sentence that is split
\* into three segments
UIInputs ==
    { <<>>,
      <<" ">>,
      <<"a">>,
      <<"a", " ">> \o Rep("d", MAX_TWEET_LENGTH) }

\* the locals of splitIntoThreads and of splitLongSentence
locals == <<paragraphs, pIdx, sentences, sIdx, currentThread, threads,
            remainingSentence, chunks, result, marks>>

\* the locals are gone when the call is over
LocalsGone ==
    /\ paragraphs' = <<>>
    /\ pIdx' = 1
    /\ sentences' = <<>>
    /\ sIdx' = 1
    /\ currentThread' = <<>>
    /\ threads' = <<>>
    /\ remainingSentence' = <<>>
    /\ chunks' = <<>>
    /\ result' = <<>>
    /\ marks' = <<>>

\* no handler runs and the uploader dialog (ThreadPreview.tsx lines 226-235)
\* is closed
PageIdle == pc = "idle" /\ activeUploadIndex = <<>>

\* a handler is invoked
Invoke(name) ==
    /\ ops < MaxOps
    /\ ops' = ops + 1
    /\ event' = name

\* the indexes of the items rendered, ThreadPreview.tsx line 247
Indexes == 0..(Len(pageThreads) - 1)

\* ThreadInput.tsx line 42: text => ({ text })
Item(text) == [text |-> text, image |-> FALSE, video |-> FALSE]

\* items.splice(index, 1) for a 0-based index: what is left
Removed(items, index) ==
    SubSeq(items, 1, index) \o SubSeq(items, index + 2, Len(items))

\* items.splice(index, 0, item) for a 0-based index
Inserted(items, index, item) ==
    SubSeq(items, 1, index) \o <<item>> \o SubSeq(items, index + 1, Len(items))

\* ThreadInput.tsx line 78: onChange of the textarea
setContent ==
    /\ PageIdle
    /\ Invoke("setContent")
    /\ content' \in UIInputs
    /\ UNCHANGED <<pc, locals, calls, pageThreads, isGenerating, isPosting,
                   toast, ppc, request, response, activeUploadIndex,
                   uploadType, api>>

\* mutant: the content is not tested, the transform is always invoked
generateThreadUnguarded ==
    /\ PageIdle
    /\ Invoke("generateThread")
    /\ isGenerating' = TRUE
    /\ pc' = "start"
    /\ UNCHANGED <<content, locals, calls, pageThreads, isPosting, toast,
                   ppc, request, response, activeUploadIndex, uploadType, api>>

\* ThreadInput.tsx lines 25-39: generateThread up to the call of
\* splitIntoThreads
generateThread ==
    /\ PageIdle
    /\ Invoke("generateThread")
    /\ IF Trim(content) = <<>>
       THEN /\ toast' = "Empty content"
            /\ UNCHANGED <<pc, isGenerating>>
       ELSE /\ isGenerating' = TRUE
            /\ pc' = "start"
            /\ UNCHANGED toast
    /\ UNCHANGED <<content, locals, calls, pageThreads, isPosting, ppc,
                   request, response, activeUploadIndex, uploadType, api>>

\* ThreadInput.tsx lines 39-50 and 58-60: splitIntoThreads returns, the
\* segments become the list
generateThreadReturns ==
    /\ pc = "done"
    /\ isGenerating
    /\ calls' = Append(calls, [fn |-> "splitIntoThreads", arg |-> content,
                               ret |-> result])
    /\ pageThreads' = [i \in 1..Len(result) |-> Item(result[i])]
    /\ toast' = "Thread generated"
    /\ isGenerating' = FALSE
    /\ pc' = "idle"
    /\ LocalsGone
    /\ UNCHANGED <<content, isPosting, ppc, request, response,
                   activeUploadIndex, uploadType, ops, event, api>>

\* ThreadInput.tsx lines 51-60: splitIntoThreads throws (it can, when the
\* engine runs out of stack or memory, line 42 of the transform spreads the
\* fragments into arguments), the catch and the finally block run
generateThreadCatch ==
    /\ pc \notin {"idle", "done"}
    /\ isGenerating
    /\ toast' = "Failed to generate thread"
    /\ isGenerating' = FALSE
    /\ pc' = "idle"
    /\ LocalsGone
    /\ UNCHANGED <<content, calls, pageThreads, isPosting, ppc, request,
                   response, activeUploadIndex, uploadType, ops, event, api>>

\* ThreadPreview.tsx lines 176-180
deleteThread(index) ==
    /\ PageIdle
    /\ Invoke("deleteThread")
    /\ pageThreads' = Removed(pageThreads, index)
    /\ UNCHANGED <<content, pc, locals, calls, isGenerating, isPosting,
                   toast, ppc, request, response, activeUploadIndex,
                   uploadType, api>>

\* ThreadPreview.tsx lines 158-173: the item of id thread-<active> is
\* dropped on the item of id thread-<over[1]>, or outside of every item
\* (over is null, line 161 throws and nothing is set)
handleDragEnd(active, over) ==
    /\ PageIdle
    /\ Invoke("handleDragEnd")
    /\ IF over # <<>> /\ over[1] # active
       THEN pageThreads' =
                Inserted(Removed(pageThreads, active), over[1],
                         pageThreads[active + 1])
       ELSE UNCHANGED pageThreads
    /\ UNCHANGED <<content, pc, locals, calls, isGenerating, isPosting,
                   toast, ppc, request, response, activeUploadIndex,
                   uploadType, api>>

\* ThreadPreview.tsx lines 183-186
handleAddImage(index) ==
    /\ PageIdle
    /\ Invoke("handleAddImage")
    /\ activeUploadIndex' = <<index>>
    /\ uploadType' = "image"
    /\ UNCHANGED <<content, pc, locals, calls, pageThreads, isGenerating,
                   isPosting, toast, ppc, request, response, api>>

\* ThreadPreview.tsx lines 189-192
handleAddVideo(index) ==
    /\ PageIdle
    /\ Invoke("handleAddVideo")
    /\ activeUploadIndex' = <<index>>
    /\ uploadType' = "video"
    /\ UNCHANGED <<content, pc, locals, calls, pageThreads, isGenerating,
                   isPosting, toast, ppc, request, response, api>>

\* ThreadPreview.tsx lines 195-209, called by the uploader with the type of
\* line 228
attachMedia ==
    /\ pc = "idle"
    /\ activeUploadIndex # <<>>
    /\ Invoke("attachMedia")
    /\ pageThreads' =
           IF uploadType = "image"
           THEN [pageThreads EXCEPT ![activeUploadIndex[1] + 1].image = TRUE]
           ELSE [pageThreads EXCEPT ![activeUploadIndex[1] + 1].video = TRUE]
    /\ activeUploadIndex' = <<>>
    /\ uploadType' = "null"
    /\ UNCHANGED <<content, pc, locals, calls, isGenerating, isPosting,
                   toast, ppc, request, response, api>>

\* ThreadPreview.tsx lines 229-232: the uploader is closed
onClose ==
    /\ pc = "idle"
    /\ activeUploadIndex # <<>>
    /\ Invoke("onClose")
    /\ activeUploadIndex' = <<>>
    /\ uploadType' = "null"
    /\ UNCHANGED <<content, pc, locals, calls, pageThreads, isGenerating,
                   isPosting, toast, ppc, request, response, api>>

\* ThreadPreview.tsx lines 212-222
removeMedia(index, type) ==
    /\ PageIdle
    /\ Invoke("removeMedia")
    /\ pageThreads' =
           IF type = "image"
           THEN [pageThreads EXCEPT ![index + 1].image = FALSE]
           ELSE [pageThreads EXCEPT ![index + 1].video = FALSE]
    /\ UNCHANGED <<content, pc, locals, calls, isGenerating, isPosting,
                   toast, ppc, request, response, activeUploadIndex,
                   uploadType, api>>

\* thread-builder.tsx lines 21-44: handlePostThread up to the first await;
\* with an empty list it is over at once (lines 25-32 and 66-68)
handlePostThread(schedule) ==
    /\ PageIdle
    /\ ppc = "idle"
    /\ Invoke("handlePostThread")
    /\ response' = <<>>
    /\ IF Len(pageThreads) = 0
       THEN /\ toast' = "No thread to post"
            /\ isPosting' = FALSE
            /\ UNCHANGED <<ppc, request>>
       ELSE /\ isPosting' = TRUE
            /\ request' = <<[threads |-> pageThreads, schedule |-> schedule]>>
            /\ ppc' = "fetch"
            /\ UNCHANGED toast
    /\ UNCHANGED <<content, pc, locals, calls, pageThreads, isGenerating,
                   activeUploadIndex, uploadType, api>>

\* thread-builder.tsx lines 35-46: fetch resolves with a response, OK or not
fetchResolves(ok) ==
    /\ pc = "idle"
    /\ ppc = "fetch"
    /\ response' = <<[ok |-> ok]>>
    /\ ppc' = "json"
    /\ event' = "handlePostThread"
    /\ UNCHANGED <<content, pc, locals, calls, pageThreads, isGenerating,
                   isPosting, toast, request, activeUploadIndex, uploadType,
                   ops, api>>

\* mutant: there is no finally block
fetchRejectsCatchOnly ==
    /\ pc = "idle"
    /\ ppc = "fetch"
    /\ toast' = "Failed to post thread"
    /\ request' = <<>>
    /\ ppc' = "idle"
    /\ event' = "handlePostThread"
    /\ UNCHANGED <<content, pc, locals, calls, pageThreads, isGenerating,
                   isPosting, response, activeUploadIndex, uploadType, ops,
                   api>>

\* thread-builder.tsx lines 35 and 59-68: fetch rejects (a network error)
fetchRejects ==
    /\ pc = "idle"
    /\ ppc = "fetch"
    /\ toast' = "Failed to post thread"
    /\ isPosting' = FALSE
    /\ request' = <<>>
    /\ ppc' = "idle"
    /\ event' = "handlePostThread"
    /\ UNCHANGED <<content, pc, locals, calls, pageThreads, isGenerating,
                   response, activeUploadIndex, uploadType, ops, api>>

\* thread-builder.tsx lines 46-58 and 59-68: response.json() resolves; a
\* response that is not OK is thrown to the catch block
jsonResolves ==
    /\ pc = "idle"
    /\ ppc = "json"
    /\ toast' = IF ~response[1].ok THEN "Failed to post thread"
                ELSE IF request[1].schedule THEN "Thread Scheduled"
                ELSE "Thread Posted"
    /\ isPosting' = FALSE
    /\ request' = <<>>
    /\ ppc' = "idle"
    /\ event' = "handlePostThread"
    /\ UNCHANGED <<content, pc, locals, calls, pageThreads, isGenerating,
                   response, activeUploadIndex, uploadType, ops, api>>

\* thread-builder.tsx lines 46 and 59-68: response.json() rejects (the body
\* does not parse)
jsonRejects ==
    /\ pc = "idle"
    /\ ppc = "json"
    /\ toast' = "Failed to post thread"
    /\ isPosting' = FALSE
    /\ request' = <<>>
    /\ ppc' = "idle"
    /\ event' = "handlePostThread"
    /\ UNCHANGED <<content, pc, locals, calls, pageThreads, isGenerating,
                   response, activeUploadIndex, uploadType, ops, api>>

UINext ==
    \/ Next
    \/ setContent
    \/ generateThread
    \/ generateThreadReturns
    \/ generateThreadCatch
    \/ \E index \in Indexes : deleteThread(index)
    \/ \E active \in Indexes :
           \E over \in {<<>>} \cup {<<index>> : index \in Indexes} :
               handleDragEnd(active, over)
    \/ \E index \in Indexes : handleAddImage(index)
    \/ \E index \in Indexes : handleAddVideo(index)
    \/ attachMedia
    \/ onClose
    \/ \E index \in Indexes : \E type \in {"image", "video"} :
           removeMedia(index, type)
    \/ \E schedule \in BOOLEAN : handlePostThread(schedule)
    \/ \E ok \in BOOLEAN : fetchResolves(ok)
    \/ fetchRejects
    \/ jsonResolves
    \/ jsonRejects

UISpec == IdleInit /\ [][UINext]_vars

\* the steps nothing but the program decides on: the steps of the call of
\* splitIntoThreads, its return, and the settling of the promises that
\* handlePostThread awaits
Settle ==
    \/ Next
    \/ generateThreadReturns
    \/ \E ok \in BOOLEAN : fetchResolves(ok)
    \/ fetchRejects
    \/ jsonResolves
    \/ jsonRejects

\* no call is running and no post is under way
Settled == pc = "idle" /\ ppc = "idle"

\* A synchronous call runs to its end, and a promise that is awaited settles
\* (fetch resolves or rejects, so does response.json()): weak fairness of
\* Settle.  This is WF_vars(Settle) with ENABLED <<Settle>>_vars written out
\* as ~Settled: a step of the call or its return is possible at every
\* position of the call, a settling step whenever a post is under way and
\* no call is running.
UIFairSpec == UISpec /\ ([]<>Settled \/ []<><<Settle>>_vars)

\* a step that invokes the handler of this name
Invokes(name) == ops' = ops + 1 /\ event' = name

\* C26: generateThread with empty or whitespace-only content does not invoke
\* splitIntoThreads and leaves the list and isGenerating as they are; with
\* other content it invokes splitIntoThreads once, with the content, and when
\* the call returns the list is the segments in order, each without media,
\* and isGenerating is false; isGenerating is false too when the call throws,
\* and the list is then as it was.
C26_CallerStep ==
    /\ Invokes("generateThread") =>
           IF Trim(content) = <<>>
           THEN pc' = "idle" /\ UNCHANGED <<calls, pageThreads, isGenerating>>
           ELSE pc' = "start" /\ UNCHANGED <<content, calls, pageThreads>>
    /\ pc' = "start" => pc = "idle" /\ Invokes("generateThread")
    /\ (pc # "idle" /\ pc' # "idle") =>
           UNCHANGED <<content, calls, pageThreads>>
    /\ (pc # "idle" /\ pc' = "idle") =>
           /\ ~isGenerating'
           /\ \/ /\ pc = "done"
                 /\ calls' = Append(calls, [fn |-> "splitIntoThreads",
                                            arg |-> content, ret |-> result])
                 /\ Len(pageThreads') = Len(result)
                 /\ \A i \in 1..Len(result) :
                        /\ pageThreads'[i].text = result[i]
                        /\ ~pageThreads'[i].image
                        /\ ~pageThreads'[i].video
              \/ /\ pc # "done"
                 /\ UNCHANGED <<calls, pageThreads>>

C26_Caller == [](pc = "idle" => ~isGenerating) /\ [][C26_CallerStep]_vars

\* a generate action with blank content has left a list of three segments
\* as it was
C26_Witness ==
    /\ event = "generateThread"
    /\ toast = "Empty content"
    /\ Len(calls) = 1
    /\ Len(pageThreads) = 3
    /\ ~isGenerating

\* C27: after any sequence of generate, drag and delete operations, an item
\* whose text starts with a numbering "k/n " is at position k of a list of
\* n items.  (A list of n segments loses at most one item for each handler
\* invoked: n is at most the length of the list plus ops.)
C27_NumberingAgrees ==
    \A i \in 1..Len(pageThreads) :
        \A k, n \in 1..(Len(pageThreads) + ops) :
            IsPrefix(Prefix(k, n), pageThreads[i].text) =>
                k = i /\ n = Len(pageThreads)

\* C29: handlePostThread sets isPosting when it starts and resets it when it
\* ends, on every path: with an empty list it ends at once and sends no
\* request, otherwise it sends the list and ends when fetch rejects, when
\* the body does not parse, and when the response is there, OK or not; it
\* never changes the list, and nothing else changes isPosting.  It always
\* ends: isPosting leads to ~isPosting when the awaited promises settle.
C29_PostStep ==
    /\ Invokes("handlePostThread") =>
           /\ UNCHANGED pageThreads
           /\ IF pageThreads = <<>>
              THEN ~isPosting' /\ ppc' = "idle" /\ request' = <<>>
              ELSE /\ isPosting'
                   /\ ppc' = "fetch"
                   /\ Len(request') = 1
                   /\ request'[1].threads = pageThreads
    /\ ppc' # ppc =>
           /\ UNCHANGED pageThreads
           /\ isPosting' <=> ppc' # "idle"
    /\ ~Invokes("handlePostThread") /\ ppc' = ppc =>
           UNCHANGED <<isPosting, request>>

C29_PostingReset ==
    /\ [](isPosting <=> ppc # "idle")
    /\ [][C29_PostStep]_vars
    /\ isPosting ~> ~isPosting

\* a post has ended on a response that was not OK
C29_Witness ==
    /\ event = "handlePostThread"
    /\ ppc = "idle"
    /\ response # <<>>
    /\ ~response[1].ok
    /\ toast = "Failed to post thread"
    /\ ~isPosting
    /\ pageThreads # <<>>

(***************************************************************************)
(* The API route: pages/api/post-thread.ts.  A request is its method and   *)
(* its parsed body; the body is what a client can send, whatever the type  *)
(* ThreadPostRequest says.  A value that can be absent is a sequence of    *)
(* no or one element: the body (null), an item of the array (null), the    *)
(* scheduled time (undefined).                                             *)
(***************************************************************************)

\* the length of the array threads of a request
MaxItems == 2

Methods == {"GET", "POST"}

\* the text of an item: absent, a string, a number other than 0
ItemTexts ==
    { [type |-> "undefined", str |-> <<>>],
      [type |-> "string", str |-> <<>>],
      [type |-> "string", str |-> <<" ">>],
      [type |-> "string", str |-> <<"a">>],
      [type |-> "number", str |-> <<>>] }

\* null, or an object
RequestItems == {<<>>} \cup {<<[text |-> t]>> : t \in ItemTexts}

\* the field threads of a body: absent, a string that is not empty, an array
RequestThreads ==
    { [type |-> "undefined", items |-> <<>>],
      [type |-> "string", items |-> <<>>] }
    \cup { [type |-> "array", items |-> a] :
               a \in UNION {[1..n -> RequestItems] : n \in 0..MaxItems} }

\* null, or an object
Bodies ==
    {<<>>}
    \cup { <<[threads |-> t, schedule |-> sch, scheduledTime |-> time]>> :
               t \in RequestThreads,
               sch \in {"undefined", "false", "true"},
               time \in {<<>>, <<"">>, <<"t">>} }

Requests == {[method |-> m, body |-> b] : m \in Methods, b \in Bodies}

\* a request has arrived, nothing else goes on
HandlerInit ==
    /\ content = <<>>
    /\ pc = "idle"
    /\ paragraphs = <<>>
    /\ pIdx = 1
    /\ sentences = <<>>
    /\ sIdx = 1
    /\ currentThread = <<>>
    /\ threads = <<>>
    /\ remainingSentence = <<>>
    /\ chunks = <<>>
    /\ result = <<>>
    /\ marks = <<>>
    /\ calls = <<>>
    /\ PageInit
    /\ req \in {<<r>> : r \in Requests}
    /\ hpc = "start"
    /\ res = <<>>

\* res.status(status).json({ success, scheduledTime, ... })
Respond(status, success, time) ==
    res' = Append(res, [status |-> status, success |-> success,
                        scheduledTime |-> time])

\* line 45: !threads || !Array.isArray(threads) || threads.length === 0
ThreadsInvalid(t) == t.type # "array" \/ Len(t.items) = 0

\* line 53: the callback throws a TypeError, thread is null or thread.text
\* is truthy and has no method trim
ItemThrows(item) == item = <<>> \/ item[1].text.type = "number"

\* line 53: !thread.text || thread.text.trim() === ''
ItemInvalid(item) ==
    \/ item[1].text.type = "undefined"
    \/ item[1].text.type = "string" /\ item[1].text.str = <<>>
    \/ item[1].text.type = "string" /\ Trim(item[1].text.str) = <<>>

\* lines 74-77 and 84
ResponseScheduledTime(body) ==
    IF body.schedule = "true"
    THEN IF body.scheduledTime \in {<<>>, <<"">>}
         THEN <<"generated">>
         ELSE body.scheduledTime
    ELSE <<>>

\* lines 28-68 and 87-92: the handler up to its first response or to the
\* await of line 68
handler ==
    /\ hpc = "start"
    /\ IF req[1].method # "POST"
       THEN Respond(405, FALSE, <<>>) /\ hpc' = "done"
       ELSE IF req[1].body = <<>>
       THEN Respond(500, FALSE, <<>>) /\ hpc' = "done"
       ELSE IF ThreadsInvalid(req[1].body[1].threads)
       THEN Respond(400, FALSE, <<>>) /\ hpc' = "done"
       ELSE IF \E i \in 1..Len(req[1].body[1].threads.items) :
                   ItemThrows(req[1].body[1].threads.items[i])
       THEN Respond(500, FALSE, <<>>) /\ hpc' = "done"
       ELSE IF \E i \in 1..Len(req[1].body[1].threads.items) :
                   ItemInvalid(req[1].body[1].threads.items[i])
       THEN Respond(400, FALSE, <<>>) /\ hpc' = "done"
       ELSE hpc' = "processing" /\ UNCHANGED res
    /\ UNCHANGED <<content, pc, locals, calls, ui, req>>

\* lines 109-111 and 87-92: simulateProcessing throws
simulateProcessingThrows ==
    /\ hpc = "processing"
    /\ Respond(500, FALSE, <<>>)
    /\ hpc' = "done"
    /\ UNCHANGED <<content, pc, locals, calls, ui, req>>

\* lines 68-85: simulateProcessing returns
simulateProcessingReturns ==
    /\ hpc = "processing"
    /\ Respond(200, TRUE, ResponseScheduledTime(req[1].body[1]))
    /\ hpc' = "done"
    /\ UNCHANGED <<content, pc, locals, calls, ui, req>>

HandlerNext ==
    \/ handler
    \/ simulateProcessingThrows
    \/ simulateProcessingReturns

HandlerSpec == HandlerInit /\ [][HandlerNext]_vars

\* threads is missing, is not an array or is empty
ThreadsMissing(r) ==
    \/ r.body = <<>>
    \/ r.body[1].threads.type # "array"
    \/ r.body[1].threads.items = <<>>

\* the item has no text, or a text of whitespace only
TextMissing(item) ==
    \/ item = <<>>
    \/ item[1].text.type = "undefined"
    \/ item[1].text.type = "string" /\ NoWS(item[1].text.str) = <<>>

\* the status decided before processing, 0 when there is none
StatusBeforeProcessing(r) ==
    IF r.method # "POST" THEN 405
    ELSE IF ThreadsMissing(r) THEN 400
    ELSE IF \E i \in 1..Len(r.body[1].threads.items) :
                TextMissing(r.body[1].threads.items[i]) THEN 400
    ELSE 0

\* C28: the handler sends exactly one response for a request: 405 when the
\* method is not POST; otherwise 400 when threads is missing, not an array
\* or empty; otherwise 400 when an item has no text or a text of whitespace
\* only; otherwise it processes, and sends 500 when processing throws and 200
\* when it does not.  success is true exactly with 200, and scheduledTime is
\* in the response only when schedule was requested.
C28_ResponseStep ==
    /\ (hpc = "start" /\ hpc' # "start") =>
           IF StatusBeforeProcessing(req[1]) = 0
           THEN hpc' = "processing" /\ res' = <<>>
           ELSE /\ hpc' = "done"
                /\ Len(res') = 1
                /\ res'[1].status = StatusBeforeProcessing(req[1])
    /\ (hpc = "processing" /\ hpc' # "processing") =>
           /\ hpc' = "done"
           /\ Len(res') = 1
           /\ res'[1].status \in {200, 500}
    /\ hpc = "done" => res' = res

C28_OneResponse ==
    /\ hpc # "done" => res = <<>>
    /\ hpc = "done" =>
           /\ Len(res) = 1
           /\ res[1].success <=> res[1].status = 200
           /\ res[1].scheduledTime # <<>> =>
                  /\ req[1].body # <<>>
                  /\ req[1].body[1].schedule = "true"

C28_Responses == []C28_OneResponse /\ [][C28_ResponseStep]_vars

====
